---- MODULE Spec2Model ----
(***************************************************************************)
(* BayNet: conditional probability tables (baynet/parameters.py) and the   *)
(* protobuf DAG codec (baynet/utils/dag_io.py).                            *)
(*                                                                         *)
(* Numbers.  A float64 is a record [t, k, n, d]:                           *)
(*   t = "nan" | "pinf" | "ninf" | "fin";  a finite value is (n/d) * M^k   *)
(*   with M the largest finite double (about 1.8e308) and k in -1..1.      *)
(*   Values of one scale k are added and divided exactly (n/d reduced);    *)
(*   a value of a larger scale absorbs one of a smaller scale, a result    *)
(*   beyond M overflows to an infinity, one below 1/M underflows to 0.     *)
(*   Rounding inside one scale is not modelled.                            *)
(***************************************************************************)
EXTENDS Integers, Sequences, FiniteSets, TLC

VARIABLES models, rng, ret, dag, buf, loaded

vars == <<models, rng, ret, dag, buf, loaded>>

----------------------------------------------------------------------------
(* Bounds *)

MaxLevels == 2
MaxRows == 2
RngMod == 3
MaxNodes == 2

----------------------------------------------------------------------------
(* float64 values *)

Abs(x) == IF x < 0 THEN 0 - x ELSE x

RECURSIVE Gcd(_, _)
Gcd(a, b) == IF b = 0 THEN a ELSE Gcd(b, a % b)

Fin(n, d) ==
    LET g == Gcd(Abs(n), d)
    IN  [t |-> "fin", k |-> 0, n |-> n \div g, d |-> d \div g]

Scaled(k, n, d) ==
    LET g == Gcd(Abs(n), d)
    IN  IF n = 0 THEN [t |-> "fin", k |-> 0, n |-> 0, d |-> 1]
        ELSE [t |-> "fin", k |-> k, n |-> n \div g, d |-> d \div g]

NaN == [t |-> "nan", k |-> 0, n |-> 0, d |-> 1]
PInf == [t |-> "pinf", k |-> 0, n |-> 0, d |-> 1]
NInf == [t |-> "ninf", k |-> 0, n |-> 0, d |-> 1]
Zero == Fin(0, 1)
One == Fin(1, 1)

IsFin(x) == x.t = "fin"
IsZero(x) == IsFin(x) /\ x.n = 0

\* the replacement values of np.nan_to_num(array, nan=1e-8, posinf=1.0 - 1e-8)
EpsDen == 100000000
NanValue == Fin(1, EpsDen)
PosInfValue == Fin(EpsDen - 1, EpsDen)
\* neginf is not given: numpy substitutes the most negative finite double
NegInfValue == [t |-> "fin", k |-> 1, n |-> 0 - 1, d |-> 1]

Overflow(k, n, d) == k > 1 \/ (k = 1 /\ Abs(n) > d)

Round(k, n, d) ==
    IF n = 0 THEN Zero
    ELSE IF Overflow(k, n, d) THEN (IF n > 0 THEN PInf ELSE NInf)
    ELSE IF k < 0 - 1 THEN Zero
    ELSE Scaled(k, n, d)

\* IEEE-754 addition
Add(a, b) ==
    IF a.t = "nan" \/ b.t = "nan" THEN NaN
    ELSE IF a.t = "pinf" THEN (IF b.t = "ninf" THEN NaN ELSE PInf)
    ELSE IF a.t = "ninf" THEN (IF b.t = "pinf" THEN NaN ELSE NInf)
    ELSE IF b.t # "fin" THEN b
    ELSE IF a.n = 0 THEN b
    ELSE IF b.n = 0 THEN a
    ELSE IF a.k > b.k THEN a
    ELSE IF b.k > a.k THEN b
    ELSE LET g == Gcd(a.d, b.d)
             l == (a.d \div g) * b.d
         IN  Round(a.k, a.n * (l \div a.d) + b.n * (l \div b.d), l)

Sign(x) == IF x.t = "pinf" THEN 1
           ELSE IF x.t = "ninf" THEN 0 - 1
           ELSE IF x.n > 0 THEN 1
           ELSE IF x.n < 0 THEN 0 - 1
           ELSE 0

\* IEEE-754 division (a zero divisor is +0: a sum that cancels is +0)
Div(a, b) ==
    IF a.t = "nan" \/ b.t = "nan" THEN NaN
    ELSE IF ~IsFin(a)
         THEN IF ~IsFin(b) THEN NaN
              ELSE IF Sign(a) * Sign(b) < 0 THEN NInf ELSE PInf
    ELSE IF ~IsFin(b) THEN Zero
    ELSE IF b.n = 0
         THEN IF a.n = 0 THEN NaN ELSE IF a.n > 0 THEN PInf ELSE NInf
    ELSE LET g1 == Gcd(Abs(a.n), Abs(b.n))
             g2 == Gcd(a.d, b.d)
             num == (a.n \div g1) * (b.d \div g2)
             den == (a.d \div g2) * (b.n \div g1)
         IN  IF a.n = 0 THEN Zero
             ELSE IF den < 0 THEN Round(a.k - b.k, 0 - num, 0 - den)
             ELSE Round(a.k - b.k, num, den)

\* IEEE-754 a < b
Less(a, b) ==
    IF a.t = "nan" \/ b.t = "nan" THEN FALSE
    ELSE IF a.t = "pinf" \/ b.t = "ninf" THEN FALSE
    ELSE IF a.t = "ninf" \/ b.t = "pinf" THEN TRUE
    ELSE IF Sign(a) # Sign(b) THEN Sign(a) < Sign(b)
    ELSE IF Sign(a) = 0 THEN FALSE
    ELSE IF a.k # b.k THEN (IF Sign(a) > 0 THEN a.k < b.k ELSE a.k > b.k)
    ELSE a.n * b.d < b.n * a.d

----------------------------------------------------------------------------
(* numpy arrays: [shape, flat], flat in row-major order *)

RECURSIVE Prod(_)
Prod(s) == IF s = <<>> THEN 1 ELSE Head(s) * Prod(Tail(s))

RECURSIVE SumSeq(_, _)
\* np.sum along the last axis: left-to-right accumulation from acc
SumSeq(acc, s) == IF s = <<>> THEN acc ELSE SumSeq(Add(acc, Head(s)), Tail(s))

RowSum(row) == SumSeq(Zero, row)

LastAxis(arr) == arr.shape[Len(arr.shape)]
NumRows(arr) == Prod(SubSeq(arr.shape, 1, Len(arr.shape) - 1))
Row(arr, r) == SubSeq(arr.flat, (r - 1) * LastAxis(arr) + 1, r * LastAxis(arr))

RECURSIVE Concat(_)
Concat(rows) == IF rows = <<>> THEN <<>> ELSE Head(rows) \o Concat(Tail(rows))

FromRows(shape, rows) == [shape |-> shape, flat |-> Concat(rows)]

Zeros(shape) == [shape |-> shape, flat |-> [i \in 1..Prod(shape) |-> Zero]]

\* row.cumsum(): running sums
CumSum(row) == [i \in 1..Len(row) |-> SumSeq(Zero, SubSeq(row, 1, i))]

----------------------------------------------------------------------------
(* Parameter models: the 'CPD' attribute of a vertex.                      *)
(*   has: the attributes the object carries (an object built by            *)
(*   ConditionalProbabilityTable() without a node carries none)            *)

ObjIds == 1..2

NoModel == [kind |-> "none"]

NoArray == [shape |-> <<0>>, flat |-> <<>>]

\* parents: vertex indices (from __init__) or vertex names (from buf_to_dag)
NoParents == [form |-> "unset", idx |-> <<>>, names |-> <<>>]
IndexParents(ix) == [form |-> "index", idx |-> ix, names |-> <<>>]
NameParents(ns) == [form |-> "name", idx |-> <<>>, names |-> ns]

None == [some |-> FALSE, v |-> <<>>]
Some(x) == [some |-> TRUE, v |-> x]

LevelNames(n) == [i \in 1..n |-> ToString(i - 1)]

\* ConditionalProbabilityTable() : node is None, __init__ returns at once
EmptyTable ==
    [kind |-> "cpt", has |-> {}, scaled |-> FALSE, levels |-> <<>>,
     n_levels |-> 0, n_parent_levels |-> <<>>, parents |-> NoParents,
     array |-> NoArray, cumsum_array |-> NoArray]

\* ConditionalProbabilityTable(node): [err, obj]
\*   nodeLevels: node['levels'];  parentLevels: v['levels'] of each in-neighbour
\*   parentIdx: parent.index of each in-neighbour
TableFor(nodeLevels, parentLevels, parentIdx) ==
    LET npl == [p \in 1..Len(parentLevels) |-> Len(parentLevels[p].v)]
        shape == npl \o <<Len(nodeLevels.v)>>
    IN  [kind |-> "cpt",
         has |-> {"_scaled", "parent_levels", "n_parent_levels", "parents",
                  "levels", "n_levels", "array", "cumsum_array"},
         scaled |-> FALSE,
         levels |-> nodeLevels.v,
         n_levels |-> Len(nodeLevels.v),
         n_parent_levels |-> npl,
         parents |-> IndexParents(parentIdx),
         array |-> Zeros(shape),
         cumsum_array |-> Zeros(shape)]

NewTableDefaultLevels(nodeLevels, parentLevels, parentIdx) ==
    IF \E p \in 1..Len(parentLevels) : ~parentLevels[p].some
    THEN [err |-> "ValueError", obj |-> NoModel]
    ELSE [err |-> "", obj |-> TableFor(nodeLevels, parentLevels, parentIdx)]

NewTable(nodeLevels, parentLevels, parentIdx) ==
    IF \E p \in 1..Len(parentLevels) : ~parentLevels[p].some
    THEN [err |-> "ValueError", obj |-> NoModel]
    ELSE IF ~nodeLevels.some
    THEN [err |-> "ValueError", obj |-> NoModel]
    ELSE [err |-> "", obj |-> TableFor(nodeLevels, parentLevels, parentIdx)]

\* ConditionalProbabilityDistribution(node)
NewCPD(parentIdx) ==
    [kind |-> "cpd", has |-> {"mean", "std", "parents", "array"},
     scaled |-> FALSE, levels |-> <<>>, n_levels |-> 0,
     n_parent_levels |-> <<>>, parents |-> IndexParents(parentIdx),
     array |-> Zeros(<<Len(parentIdx)>>), cumsum_array |-> NoArray]

\* np.nan_to_num(x, nan=1e-8, posinf=1.0 - 1e-8)
NanToNum(x) ==
    IF x.t = "nan" THEN NanValue
    ELSE IF x.t = "pinf" THEN PosInfValue
    ELSE IF x.t = "ninf" THEN NegInfValue
    ELSE x

FillZeroRowSkipped(row) == row

\* array[array.sum(axis=-1) == 0] = 1, on one row
FillZeroRow(row) == IF IsZero(RowSum(row)) THEN [i \in 1..Len(row) |-> One] ELSE row

\* array /= expand_dims(array.sum(axis=-1), -1), on one row
DivideRowTotal(row, total) == [i \in 1..Len(row) |-> Div(row[i], total)]

DivideRow(row) == [i \in 1..Len(row) |-> Div(row[i], RowSum(row))]

CleanRow(row) == [i \in 1..Len(row) |-> NanToNum(FillZeroRow(row)[i])]

RescaleRow(row) == DivideRow(CleanRow(row))

RescaleArray(arr) ==
    FromRows(arr.shape, [r \in 1..NumRows(arr) |-> RescaleRow(Row(arr, r))])

CumSumArray(arr) ==
    FromRows(arr.shape, [r \in 1..NumRows(arr) |-> CumSum(Row(arr, r))])

\* rescale_probabilities: the object after the call
Rescaled(m) ==
    [m EXCEPT !.array = RescaleArray(m.array),
              !.cumsum_array = CumSumArray(RescaleArray(m.array)),
              !.scaled = TRUE,
              !.has = m.has \cup {"_scaled", "cumsum_array"}]

----------------------------------------------------------------------------
(* The shared random source np.random: a generator state in 0..RngMod-1.   *)
(* Every draw is a function of the state and advances it.                  *)

RngStates == 0..(RngMod - 1)

\* np.random.seed(seed)
SeedState(seed) == seed % RngMod

Advance(s, n) == (s + n) % RngMod

\* np.random.uniform(size=n): values in [0, 1)
Uniform(s) == Fin(s, RngMod)
UniformVector(s, n) == [i \in 1..n |-> Uniform(Advance(s, i - 1))]

\* one gamma variate of shape a: a shape below 1 can underflow to 0
Gamma(s, a) == IF Less(a, One) THEN s % 2 ELSE 1 + (s % 2)

\* np.random.dirichlet([a] * n, size): each row is n gamma variates over their sum
DirichletRow(s, a, n) ==
    LET g == [i \in 1..n |-> Fin(Gamma(Advance(s, i - 1), a), 1)]
    IN  DivideRowTotal(g, RowSum(g))

Dirichlet(s, a, n, size) ==
    [r \in 1..size |-> DirichletRow(Advance(s, (r - 1) * n), a, n)]

\* np.random.choice(weights, n)
Choice(s, weights, n) ==
    [i \in 1..n |-> weights[(Advance(s, i - 1) % Len(weights)) + 1]]

----------------------------------------------------------------------------
(* Calls and their results *)

NoSeed == 0 - 1
NoAlpha == 0
NoNode == [levels |-> None, parent_levels |-> <<>>]

NoCall ==
    [op |-> "", err |-> "", out |-> <<>>, random_vector |-> <<>>,
     parent_values |-> <<>>, arg |-> NoArray, seed |-> NoSeed,
     alpha |-> NoAlpha, weights |-> <<>>, node |-> NoNode]

RECURSIVE FirstLessOrEqual(_, _, _)
FirstLessOrEqual(u, probs, i) ==
    IF i > Len(probs) THEN 0
    ELSE IF ~Less(probs[i], u) THEN i - 1
    ELSE FirstLessOrEqual(u, probs, i + 1)

\* np.argmax(u < probs): the first index (from 0) where u < probs, 0 if none
RECURSIVE FirstLess(_, _, _)
FirstLess(u, probs, i) ==
    IF i > Len(probs) THEN 0
    ELSE IF Less(u, probs[i]) THEN i - 1
    ELSE FirstLess(u, probs, i + 1)

ArgMaxLess(u, probs) == FirstLess(u, probs, 1)

\* the row of cpt selected by a tuple of parent values (row-major, from 0)
RECURSIVE Ravel(_, _)
Ravel(values, dims) ==
    IF values = <<>> THEN 0
    ELSE Head(values) * Prod(Tail(dims)) + Ravel(Tail(values), Tail(dims))

Lookup(cpt, values) ==
    Row(cpt, Ravel(values, SubSeq(cpt.shape, 1, Len(cpt.shape) - 1)) + 1)

_sample_cpt(cpt, parent_values, random_vector) ==
    [r \in 1..Len(random_vector) |->
        ArgMaxLess(random_vector[r], Lookup(cpt, parent_values[r]))]

\* incomplete_data[:, self.parents].astype(int) as a list of tuples
ParentValues(data, m) ==
    [r \in 1..Len(data) |->
        [p \in 1..Len(m.parents.idx) |-> data[r][m.parents.idx[p] + 1]]]

\* ConditionalProbabilityTable.sample: [err, out, random_vector, parent_values, rng]
SampleCall(m, data, s) ==
    LET fail(e) == [err |-> e, out |-> <<>>, random_vector |-> <<>>,
                    parent_values |-> <<>>, rng |-> s]
    IN  IF "_scaled" \notin m.has THEN fail("AttributeError")
        ELSE IF ~m.scaled THEN fail("ValueError: CPT not scaled")
        ELSE IF "parents" \notin m.has THEN fail("AttributeError")
        ELSE IF m.parents.names # <<>> THEN fail("IndexError")
        ELSE LET pv == ParentValues(data, m)
                 u == UniformVector(s, Len(data))
             IN  [err |-> "", out |-> _sample_cpt(m.cumsum_array, pv, u),
                  random_vector |-> u, parent_values |-> pv,
                  rng |-> Advance(s, Len(data))]

----------------------------------------------------------------------------
(* sample_parameters *)

DefaultAlpha == 20
MinAlphaNorm == Fin(1, 100)
DefaultWeights == <<Fin(0 - 2, 1), Fin(0 - 1, 2), Fin(1, 2), Fin(2, 1)>>

MaxOf(a, b) == IF Less(a, b) THEN b ELSE a

SeededUnseeded(seed, s) == s

\* if seed is not None: np.random.seed(seed)
Seeded(seed, s) == IF seed # NoSeed THEN SeedState(seed) ELSE s

\* ConditionalProbabilityTable.sample_parameters: [err, obj, rng]
SampleParametersCPT(m, alpha, seed, s) ==
    LET a == IF alpha = NoAlpha THEN DefaultAlpha ELSE alpha
        s1 == Seeded(seed, s)
    IN  IF "n_parent_levels" \notin m.has
        THEN [err |-> "AttributeError", obj |-> m, rng |-> s1]
        ELSE LET parent_levels == Prod(m.n_parent_levels)
                 alpha_norm == MaxOf(MinAlphaNorm, Fin(a, parent_levels * m.n_levels))
                 draws == Dirichlet(s1, alpha_norm, m.n_levels, parent_levels)
             IN  [err |-> "",
                  obj |-> Rescaled([m EXCEPT !.array = FromRows(m.array.shape, draws)]),
                  rng |-> Advance(s1, parent_levels * m.n_levels)]

NumParents(m) == IF m.parents.form = "name" THEN Len(m.parents.names)
                 ELSE Len(m.parents.idx)

\* ConditionalProbabilityDistribution.sample_parameters: [err, obj, rng]
SampleParametersCPD(m, weights, seed, s) ==
    LET s1 == Seeded(seed, s)
        w == IF weights = <<>> THEN DefaultWeights ELSE weights
        n == NumParents(m)
    IN  IF "parents" \notin m.has
        THEN [err |-> "AttributeError", obj |-> m, rng |-> s1]
        ELSE [err |-> "",
              obj |-> [m EXCEPT !.array = [shape |-> <<n>>, flat |-> Choice(s1, w, n)],
                                !.has = m.has \cup {"array"}],
              rng |-> Advance(s1, n)]

----------------------------------------------------------------------------
(* Inputs *)

Seeds == {NoSeed, 0, 1}
Alphas == {NoAlpha, 1}
WeightLists == {<<>>, <<One>>}

NegEps == Fin(0 - 1, EpsDen)

\* contents an array can hold when rescale_probabilities is entered
CellValues == {Zero, One, NaN, PInf, NInf, NegEps}

RECURSIVE Tuples(_, _)
Tuples(S, n) ==
    IF n = 0 THEN {<<>>}
    ELSE {<<x>> \o t : x \in S, t \in Tuples(S, n - 1)}

\* node['levels']: absent, or the level names
NodeLevels == {None} \cup {Some(LevelNames(n)) : n \in 1..MaxLevels}

\* the levels of the in-neighbours: no parent, or one (binary when it has levels)
ParentLevelLists == {<<>>, <<None>>, <<Some(LevelNames(2))>>}

\* the dataset: one column (vertex 0), values are level indices of that column
Datasets == UNION {Tuples({<<0>>, <<1>>}, n) : n \in 0..MaxRows}

\* a table populated the way buf_to_dag populates one
\* (ConditionalProbabilityTable(), then levels, array and parents assigned),
\* rescale_probabilities not yet called
LoadedTable(shape, flat, parentNames) ==
    [EmptyTable EXCEPT !.has = {"levels", "array", "parents"},
                       !.levels = LevelNames(shape[Len(shape)]),
                       !.array = [shape |-> shape, flat |-> flat],
                       !.parents = NameParents(parentNames)]

Tables1D ==
    UNION {{LoadedTable(<<n>>, f, <<>>) : f \in Tuples(CellValues, n)} :
              n \in 1..MaxLevels}

Tables2D ==
    UNION {{LoadedTable(<<2, n>>, f, <<"A">>) : f \in Tuples(CellValues, 2 * n)} :
              n \in 1..MaxLevels}

----------------------------------------------------------------------------
(* State                                                                   *)
(*   models[i]  the parameter model held in slot i (a vertex's 'CPD')      *)
(*   rng        the state of np.random                                     *)
(*   ret[i]     the last call on slot i: arguments, locals, result         *)
(*   dag, buf   the DAG in memory and the saved buffer                     *)
(*   loaded     the last codec call: its input, error and result; a        *)
(*              decoded DAG's vertices refer to their models in heap       *)

Live(i) == models[i].kind # "none"

NoResult ==
    [op |-> "", err |-> "", dag |-> <<>>, heap |-> <<>>, array |-> NoArray,
     arg |-> [shape |-> <<>>, flat_array |-> [vals |-> <<>>, rem |-> 0]],
     buf |-> <<>>]

CodecIdle == dag = <<>> /\ buf = <<>> /\ loaded = NoResult

\* v['CPD'] = ConditionalProbabilityTable(v)
Construct(i) ==
    /\ Live(i)
    /\ \E nl \in NodeLevels, pl \in ParentLevelLists :
          LET r == NewTable(nl, pl, [p \in 1..Len(pl) |-> p - 1])
          IN  /\ models' = IF r.err = "" THEN [models EXCEPT ![i] = r.obj] ELSE models
              /\ ret' = [ret EXCEPT ![i] =
                           [NoCall EXCEPT !.op = "__init__", !.err = r.err,
                                          !.node = [levels |-> nl, parent_levels |-> pl]]]
    /\ UNCHANGED <<rng, dag, buf, loaded>>

\* models[i].rescale_probabilities()
Rescale(i) ==
    /\ Live(i)
    /\ models[i].kind = "cpt"
    /\ models' = [models EXCEPT ![i] = Rescaled(models[i])]
    /\ ret' = [ret EXCEPT ![i] =
                 [NoCall EXCEPT !.op = "rescale_probabilities",
                                !.arg = models[i].array]]
    /\ UNCHANGED <<rng, dag, buf, loaded>>

\* models[i].sample(incomplete_data)
Sample(i) ==
    /\ Live(i)
    /\ models[i].kind = "cpt"
    /\ \E data \in Datasets :
          LET r == SampleCall(models[i], data, rng)
          IN  /\ rng' = r.rng
              /\ ret' = [ret EXCEPT ![i] =
                           [NoCall EXCEPT !.op = "sample", !.err = r.err,
                                          !.out = r.out,
                                          !.random_vector = r.random_vector,
                                          !.parent_values = r.parent_values,
                                          !.arg = models[i].array]]
    /\ UNCHANGED <<models, dag, buf, loaded>>

\* models[i].sample_parameters(alpha, seed) / sample_parameters(weights, seed)
SampleParameters(i) ==
    /\ Live(i)
    /\ \E seed \in Seeds :
          \/ /\ models[i].kind = "cpt"
             /\ \E alpha \in Alphas :
                   LET r == SampleParametersCPT(models[i], alpha, seed, rng)
                   IN  /\ models' = [models EXCEPT ![i] = r.obj]
                       /\ rng' = r.rng
                       /\ ret' = [ret EXCEPT ![i] =
                                    [NoCall EXCEPT !.op = "sample_parameters",
                                                   !.err = r.err, !.seed = seed,
                                                   !.alpha = alpha]]
          \/ /\ models[i].kind = "cpd"
             /\ \E w \in WeightLists :
                   LET r == SampleParametersCPD(models[i], w, seed, rng)
                   IN  /\ models' = [models EXCEPT ![i] = r.obj]
                       /\ rng' = r.rng
                       /\ ret' = [ret EXCEPT ![i] =
                                    [NoCall EXCEPT !.op = "sample_parameters",
                                                   !.err = r.err, !.seed = seed,
                                                   !.weights = w]]
    /\ UNCHANGED <<dag, buf, loaded>>

----------------------------------------------------------------------------
(* Spec: one table through its life (slot 1)                               *)

Init ==
    /\ \E t \in Tables1D : models = [i \in ObjIds |-> IF i = 1 THEN t ELSE NoModel]
    /\ rng \in RngStates
    /\ ret = [i \in ObjIds |-> NoCall]
    /\ CodecIdle

Next ==
    \/ \E i \in ObjIds : Construct(i)
    \/ \E i \in ObjIds : Rescale(i)
    \/ \E i \in ObjIds : Sample(i)
    \/ \E i \in ObjIds : SampleParameters(i)

Spec == Init /\ [][Next]_vars

(* SpecRescale: rescale_probabilities on every table of one or two rows    *)

InitRescale ==
    /\ \E t \in Tables1D \cup Tables2D :
          models = [i \in ObjIds |-> IF i = 1 THEN t ELSE NoModel]
    /\ rng = 0
    /\ ret = [i \in ObjIds |-> NoCall]
    /\ CodecIdle

NextRescale == \E i \in ObjIds : Rescale(i)

SpecRescale == InitRescale /\ [][NextRescale]_vars

----------------------------------------------------------------------------
(* Claims on rescale_probabilities                                         *)

JustRescaled(i) == Live(i) /\ ret[i].op = "rescale_probabilities"

RowIndices(arr) == 1..NumRows(arr)

RowNormalised(row) ==
    /\ \A j \in 1..Len(row) : IsFin(row[j])
    /\ RowSum(row) = One

HasSpecial(row) == \E j \in 1..Len(row) : ~IsFin(row[j])

\* C1: after rescale_probabilities returns, whatever the array held, every
\* row of array sums to 1 and holds no NaN/inf, every row of cumsum_array
\* ends in 1, cumsum_array is the running sum of array, and the table is
\* marked scaled.
C1_RescaleNormalisesEveryRow ==
    \A i \in ObjIds :
        JustRescaled(i) =>
            /\ "_scaled" \in models[i].has /\ models[i].scaled
            /\ models[i].cumsum_array = CumSumArray(models[i].array)
            /\ \A r \in RowIndices(models[i].array) :
                  /\ RowNormalised(Row(models[i].array, r))
                  /\ Row(models[i].cumsum_array, r)[LastAxis(models[i].array)] = One

\* C4: a second rescale_probabilities right after a first leaves array,
\* cumsum_array and the scaled flag as they were.
C4_RescaleIdempotent ==
    [][\A i \in ObjIds :
          (JustRescaled(i) /\ Rescale(i)) => models'[i] = models[i]]_vars

\* C9 as stated: a row whose entries sum to exactly 0 becomes uniform over
\* the levels, and a row with a non-zero sum is only divided by its sum.
C9_ZeroRowsUniformOthersDivided ==
    \A i \in ObjIds :
        JustRescaled(i) =>
            \A r \in RowIndices(ret[i].arg) :
                LET before == Row(ret[i].arg, r)
                    after == Row(models[i].array, r)
                IN  IF RowSum(before) = Zero
                    THEN \A j \in 1..Len(after) : after[j] = Fin(1, Len(after))
                    ELSE after = DivideRow(before)

\* C9 amended: a zero-sum row becomes uniform; a row with a non-zero sum and
\* only finite entries is only divided by its sum; a row holding NaN or an
\* infinity first has those entries replaced (NaN by 1e-8, +inf by 1 - 1e-8,
\* -inf by the most negative finite double) and is then divided by the sum
\* of the replaced row.
C9_ZeroRowsUniformFiniteRowsDivided ==
    \A i \in ObjIds :
        JustRescaled(i) =>
            \A r \in RowIndices(ret[i].arg) :
                LET before == Row(ret[i].arg, r)
                    after == Row(models[i].array, r)
                    replaced == [j \in 1..Len(before) |->
                                   IF before[j].t = "nan" THEN Fin(1, EpsDen)
                                   ELSE IF before[j].t = "pinf" THEN Fin(EpsDen - 1, EpsDen)
                                   ELSE IF before[j].t = "ninf" THEN NegInfValue
                                   ELSE before[j]]
                IN  IF RowSum(before) = Zero
                    THEN \A j \in 1..Len(after) : after[j] = Fin(1, Len(after))
                    ELSE IF ~HasSpecial(before)
                    THEN \A j \in 1..Len(after) : after[j] = Div(before[j], RowSum(before))
                    ELSE \A j \in 1..Len(after) : after[j] = Div(replaced[j], RowSum(replaced))

\* a two-row table whose row 0 summed to 0 and whose row 1 did not has been
\* rescaled: row 0 is uniform
C9_Witness ==
    \E i \in ObjIds :
        /\ JustRescaled(i)
        /\ NumRows(ret[i].arg) = 2
        /\ LastAxis(ret[i].arg) = 2
        /\ Row(ret[i].arg, 1) = <<Zero, Zero>>
        /\ Row(ret[i].arg, 2) = <<One, NaN>>
        /\ Row(models[i].array, 1) = <<Fin(1, 2), Fin(1, 2)>>

----------------------------------------------------------------------------
(* Claims on sample and on construction                                    *)

IsScaled(m) == "_scaled" \in m.has /\ m.scaled

NotScaledError == "ValueError: CPT not scaled"

\* C2: sample on a table whose scaled flag is not set (built from a node, or
\* built empty and populated, not yet rescaled) raises the not-scaled error
\* at once: no uniform draw, no sampled value, the table left as it was.
C2_SampleUnscaledRaisesNotScaled ==
    [][\A i \in ObjIds :
          (Sample(i) /\ ~IsScaled(models[i])) =>
              /\ ret'[i].err = NotScaledError
              /\ ret'[i].random_vector = <<>>
              /\ ret'[i].out = <<>>
              /\ rng' = rng
              /\ models' = models]_vars

Sampled(i) == Live(i) /\ ret[i].op = "sample" /\ ret[i].err = ""

\* level l (from 0) of a one-row array holds 1, every other level 0
PointMass(arr, l) ==
    /\ Len(arr.shape) = 1
    /\ \A j \in 1..Len(arr.flat) :
          arr.flat[j] = IF j = l + 1 THEN One ELSE Zero

\* C6: a scaled table with no parents whose array is a point mass on one
\* level yields the index of that level for every row of the dataset,
\* whatever the uniform draws.
C6_PointMassSamplesFixedLevel ==
    \A i \in ObjIds :
        Sampled(i) =>
            \A l \in 0..(MaxLevels - 1) :
                (NumParents(models[i]) = 0 /\ PointMass(models[i].array, l)) =>
                    \A r \in 1..Len(ret[i].out) : ret[i].out[r] = l

\* two rows were sampled from a point mass on level 1 of two, with two
\* different draws
C6_Witness ==
    \E i \in ObjIds :
        /\ Sampled(i)
        /\ PointMass(models[i].array, 1)
        /\ Len(models[i].array.flat) = 2
        /\ ret[i].out = <<1, 1>>
        /\ ret[i].random_vector[1] # ret[i].random_vector[2]

Constructed(i) == Live(i) /\ ret[i].op = "__init__"

LacksLevels(node) ==
    \/ ~node.levels.some
    \/ \E p \in 1..Len(node.parent_levels) : ~node.parent_levels[p].some

\* C7: constructing a table for a node raises a validation error exactly
\* when a parent or the node itself has no level set; otherwise array and
\* cumsum_array are zero-filled with shape (n_parent_levels..., n_levels)
\* and the table is not scaled.
C7_ConstructValidatesLevels ==
    \A i \in ObjIds :
        Constructed(i) =>
            LET node == ret[i].node
                shape == [p \in 1..Len(node.parent_levels) |->
                             Len(node.parent_levels[p].v)] \o <<Len(node.levels.v)>>
            IN  IF LacksLevels(node)
                THEN ret[i].err = "ValueError"
                ELSE /\ ret[i].err = ""
                     /\ models[i].array.shape = shape
                     /\ models[i].cumsum_array.shape = shape
                     /\ Len(models[i].array.flat) = Prod(shape)
                     /\ Len(models[i].cumsum_array.flat) = Prod(shape)
                     /\ \A j \in 1..Prod(shape) :
                           /\ models[i].array.flat[j] = Zero
                           /\ models[i].cumsum_array.flat[j] = Zero
                     /\ "_scaled" \in models[i].has
                     /\ ~models[i].scaled

\* construction was refused for a node without levels whose parent has them
C7_Witness ==
    \E i \in ObjIds :
        /\ Constructed(i)
        /\ ret[i].err = "ValueError"
        /\ ~ret[i].node.levels.some
        /\ Len(ret[i].node.parent_levels) = 1
        /\ ret[i].node.parent_levels[1].some

\* C10: on a scaled table sample returns one value per dataset row: the
\* smallest level index whose cumulative probability, in the row of
\* cumsum_array of that dataset row's parent values, exceeds that row's own
\* uniform draw; it is a level index in 0..n_levels-1.
C10_SampleFirstLevelAboveDraw ==
    \A i \in ObjIds :
        Sampled(i) =>
            /\ Len(ret[i].out) = Len(ret[i].parent_values)
            /\ Len(ret[i].random_vector) = Len(ret[i].out)
            /\ \A r \in 1..Len(ret[i].out) :
                  LET probs == Lookup(models[i].cumsum_array, ret[i].parent_values[r])
                      u == ret[i].random_vector[r]
                      l == ret[i].out[r]
                  IN  /\ l \in 0..(Len(probs) - 1)
                      /\ Less(u, probs[l + 1])
                      /\ \A j \in 1..l : ~Less(u, probs[j])

----------------------------------------------------------------------------
(* SpecSeed: two models built alike from the same node, each given          *)
(* sample_parameters calls, the generator starting anywhere                 *)

FreshModels ==
    {NewTable(nl, pl, [p \in 1..Len(pl) |-> p - 1]).obj :
        nl \in NodeLevels \ {None}, pl \in ParentLevelLists \ {<<None>>}}
    \cup {NewCPD(ix) : ix \in {<<>>, <<0>>, <<0, 1>>}}

InitSeed ==
    /\ \E m \in FreshModels : models = [i \in ObjIds |-> m]
    /\ rng \in RngStates
    /\ ret = [i \in ObjIds |-> NoCall]
    /\ CodecIdle

NextSeed == \E i \in ObjIds : SampleParameters(i)

SpecSeed == InitSeed /\ [][NextSeed]_vars

ParametersSampled(i) ==
    Live(i) /\ ret[i].op = "sample_parameters" /\ ret[i].err = ""

Alike(m1, m2) ==
    /\ m1.kind = m2.kind
    /\ m1.array.shape = m2.array.shape
    /\ m1.n_parent_levels = m2.n_parent_levels
    /\ m1.n_levels = m2.n_levels
    /\ m1.parents = m2.parents

\* C5: two sample_parameters calls with the same seed on models that are
\* otherwise alike (tables of one shape with one alpha, or linear-Gaussian
\* models with the same parents and candidate weights) leave identical
\* arrays, whatever the generator's state before each call.
C5_SeedReproducesParameters ==
    \A i, j \in ObjIds :
        ( /\ ParametersSampled(i) /\ ParametersSampled(j)
          /\ Alike(models[i], models[j])
          /\ ret[i].seed # NoSeed
          /\ ret[i].seed = ret[j].seed
          /\ ret[i].alpha = ret[j].alpha
          /\ ret[i].weights = ret[j].weights )
        => models[i].array = models[j].array

\* both two-level one-parent tables were drawn with seed 0 and the default
\* alpha, and hold rows that are not uniform
C5_Witness ==
    /\ ParametersSampled(1) /\ ParametersSampled(2)
    /\ models[1].kind = "cpt"
    /\ models[1].array.shape = <<2, 2>>
    /\ ret[1].seed = 0 /\ ret[2].seed = 0
    /\ ret[1].alpha = NoAlpha /\ ret[2].alpha = NoAlpha
    /\ models[1].array = models[2].array
    /\ Row(models[1].array, 1) # <<Fin(1, 2), Fin(1, 2)>>

----------------------------------------------------------------------------
(* The codec (dag_io.py)                                                   *)
(*   a vertex:   [name, parents, levels, cpd]   parents: names of the      *)
(*               in-neighbours in vertex order; cpd: a model or NoModel    *)
(*   a Node message: [name, parents, variable_type, levels, cpd_array]     *)
(*   cpd_array:  [shape, flat_array];  flat_array is a byte string of      *)
(*               8 * Len(vals) + rem bytes holding the doubles vals        *)

NoBytes == [vals |-> <<>>, rem |-> 0]

\* ndarray.tobytes(): the elements in row-major order, 8 bytes each
ToBytes(arr) == [vals |-> arr.flat, rem |-> 0]

\* DAG_pb2.Node(): every field at its default
EmptyNode ==
    [name |-> "", parents |-> <<>>, variable_type |-> "UNSPECIFIED",
     levels |-> <<>>, cpd_array |-> [shape |-> <<>>, flat_array |-> NoBytes]]

EncodeVertex(v) ==
    LET n1 == [EmptyNode EXCEPT !.name = v.name, !.parents = v.parents]
        n2 == IF v.cpd.kind = "cpt"
              THEN [n1 EXCEPT !.variable_type = "DISCRETE", !.levels = v.levels.v]
              ELSE IF v.cpd.kind = "cpd"
              THEN [n1 EXCEPT !.variable_type = "CONTINUOUS"]
              ELSE n1
    IN  IF v.cpd.kind = "none" THEN n1
        ELSE [n2 EXCEPT !.cpd_array = [shape |-> v.cpd.array.shape,
                                       flat_array |-> ToBytes(v.cpd.array)]]

dag_to_buf(d) == [k \in 1..Len(d) |-> EncodeVertex(d[k])]

\* buf_to_array: [err, array]
buf_to_array(array_buf) ==
    LET size == Len(array_buf.flat_array.vals)
    IN  IF array_buf.flat_array.rem # 0
        THEN [err |-> "ValueError: buffer size", array |-> NoArray]
        ELSE IF size > 0
        THEN IF Prod(array_buf.shape) # size
             THEN [err |-> "ValueError: cannot reshape", array |-> NoArray]
             ELSE [err |-> "", array |-> [shape |-> array_buf.shape,
                                          flat |-> array_buf.flat_array.vals]]
        ELSE [err |-> "", array |-> [shape |-> <<0>>, flat |-> <<>>]]

\* ConditionalProbabilityDistribution(): node is None
EmptyCPD ==
    [kind |-> "cpd", has |-> {"mean", "std"}, scaled |-> FALSE, levels |-> <<>>,
     n_levels |-> 0, n_parent_levels |-> <<>>, parents |-> NoParents,
     array |-> NoArray, cumsum_array |-> NoArray]

\* dag.add_edges([(source, name) ...]): every source must be a vertex
AddEdges(names, sources) == \A q \in 1..Len(sources) : \E k \in 1..Len(names) : names[k] = sources[q]

\* One pass of the loop of buf_to_dag over message k.
\*   st = [err, dag, heap, cpd]: cpd is the local variable of that name, a
\*   reference into heap, 0 while it is unbound; a vertex's cpd is such a
\*   reference, 0 for None
DecodeNode(msg, k, st) ==
    LET arr == buf_to_array(msg.cpd_array)
        fail(e) == [st EXCEPT !.err = e]
        withEdges == [st.dag EXCEPT ![k].parents = msg.parents]
        attach(d, heap, ref) ==
            [err |-> "",
             dag |-> [d EXCEPT ![k].cpd = ref],
             heap |-> [heap EXCEPT ![ref].parents = NameParents(msg.parents),
                                   ![ref].has = heap[ref].has \cup {"parents"}],
             cpd |-> ref]
    IN  IF ~AddEdges([j \in 1..Len(st.dag) |-> st.dag[j].name], msg.parents)
        THEN fail("ValueError: no such vertex")
        ELSE IF msg.variable_type = "DISCRETE"
        THEN IF arr.err # "" THEN fail(arr.err)
             ELSE IF Len(arr.array.shape) = 0 THEN fail("AxisError")
             ELSE LET t == Rescaled([EmptyTable EXCEPT
                                       !.has = {"levels", "array"},
                                       !.levels = msg.levels,
                                       !.array = arr.array])
                  IN  attach([withEdges EXCEPT ![k].levels = Some(msg.levels)],
                             Append(st.heap, t), Len(st.heap) + 1)
        ELSE IF msg.variable_type = "CONTINUOUS"
        THEN IF arr.err # "" THEN fail(arr.err)
             ELSE attach(withEdges,
                         Append(st.heap, [EmptyCPD EXCEPT !.has = {"mean", "std", "array"},
                                                          !.array = arr.array]),
                         Len(st.heap) + 1)
        ELSE IF st.cpd = 0 THEN fail("UnboundLocalError")
        ELSE attach(withEdges, st.heap, st.cpd)

RECURSIVE DecodeNodes(_, _, _)
DecodeNodes(msgs, k, st) ==
    IF k > Len(msgs) \/ st.err # "" THEN st
    ELSE DecodeNodes(msgs, k + 1, DecodeNode(msgs[k], k, st))

\* buf_to_dag: [err, dag, heap]
buf_to_dag(msgs) ==
    LET start == [err |-> "",
                  dag |-> [k \in 1..Len(msgs) |->
                             [name |-> msgs[k].name, parents |-> <<>>,
                              levels |-> None, cpd |-> 0]],
                  heap |-> <<>>,
                  cpd |-> 0]
        end == DecodeNodes(msgs, 1, start)
    IN  [err |-> end.err, dag |-> end.dag, heap |-> end.heap]

----------------------------------------------------------------------------
(* SpecCodec: a DAG in memory is saved and loaded; array buffers are       *)
(* decoded                                                                 *)

NodeNames == <<"A", "B", "C", "D">>

\* the in-neighbours of vertex i (vertex indices from 1), in vertex order
RECURSIVE Ascending(_, _)
Ascending(S, n) ==
    IF n = 0 THEN <<>>
    ELSE IF n \in S THEN Append(Ascending(S, n - 1), n) ELSE Ascending(S, n - 1)

Acyclic(n, P) ==
    \E rank \in [1..n -> 1..n] :
        /\ \A a, b \in 1..n : a # b => rank[a] # rank[b]
        /\ \A a \in 1..n : \A b \in P[a] : rank[b] < rank[a]

\* The parameterised DAGs: n vertices, in-neighbour sets P, a kind per vertex
\* ("none": no model, "cpt", "cpd"); a vertex with a table and its
\* in-neighbours carry two levels; with drawn, every model has had
\* sample_parameters(seed=0), otherwise it is as constructed.
VertexOf(n, P, kind, drawn, i) ==
    LET ps == Ascending(P[i], n)
        idx == [q \in 1..Len(ps) |-> ps[q] - 1]
        fresh == IF kind[i] = "cpt"
                 THEN NewTable(Some(LevelNames(2)),
                               [q \in 1..Len(ps) |-> Some(LevelNames(2))], idx).obj
                 ELSE IF kind[i] = "cpd" THEN NewCPD(idx)
                 ELSE NoModel
        model == IF ~drawn \/ kind[i] = "none" THEN fresh
                 ELSE IF kind[i] = "cpt"
                 THEN SampleParametersCPT(fresh, NoAlpha, 0, 0).obj
                 ELSE SampleParametersCPD(fresh, <<>>, 0, 0).obj
    IN  [name |-> NodeNames[i],
         parents |-> [q \in 1..Len(ps) |-> NodeNames[ps[q]]],
         levels |-> IF kind[i] = "cpt" THEN Some(LevelNames(2)) ELSE None,
         cpd |-> model]

DAGs ==
    UNION {
      {[i \in 1..n |-> VertexOf(n, P, kind, drawn, i)] :
          P \in {Q \in [1..n -> SUBSET (1..n)] : Acyclic(n, Q)},
          kind \in [1..n -> {"none", "cpt", "cpd"}],
          drawn \in BOOLEAN} :
      n \in 1..MaxNodes}

WellFormed(d) ==
    \A i \in 1..Len(d) :
        d[i].cpd.kind = "cpt" =>
            \A q \in 1..Len(d[i].parents) :
                \E j \in 1..Len(d) : d[j].name = d[i].parents[q] /\ d[j].levels.some

\* cpd_array messages handed to buf_to_array
ArrayBufs ==
    {[shape |-> sh, flat_array |-> [vals |-> v, rem |-> rm]] :
        sh \in {<<>>, <<0>>, <<2>>, <<2, 1>>, <<1, 3>>},
        v \in {<<>>, <<One>>, <<Zero, One>>, <<One, Zero, One>>},
        rm \in {0, 4}}

InitCodec ==
    /\ models = [i \in ObjIds |-> NoModel]
    /\ rng = 0
    /\ ret = [i \in ObjIds |-> NoCall]
    /\ dag \in {d \in DAGs : WellFormed(d)}
    /\ buf = <<>>
    /\ loaded = NoResult

\* dag.save(): buf = dag_to_buf(dag)
Save ==
    /\ buf' = dag_to_buf(dag)
    /\ UNCHANGED <<models, rng, ret, dag, loaded>>

\* DAG.load(buf): loaded = buf_to_dag(buf)
Load ==
    /\ LET r == buf_to_dag(buf)
       IN  loaded' = [NoResult EXCEPT !.op = "buf_to_dag", !.err = r.err, !.buf = buf,
                                      !.dag = IF r.err = "" THEN r.dag ELSE <<>>,
                                      !.heap = IF r.err = "" THEN r.heap ELSE <<>>]
    /\ UNCHANGED <<models, rng, ret, dag, buf>>

\* buf_to_array(array_buf)
DecodeArray ==
    /\ \E ab \in ArrayBufs :
          LET r == buf_to_array(ab)
          IN  loaded' = [NoResult EXCEPT !.op = "buf_to_array", !.err = r.err,
                                         !.array = r.array, !.arg = ab]
    /\ UNCHANGED <<models, rng, ret, dag, buf>>

NextCodec == Save \/ Load \/ DecodeArray

SpecCodec == InitCodec /\ [][NextCodec]_vars

----------------------------------------------------------------------------
(* Claims on the codec *)

RoundTripped == loaded.op = "buf_to_dag" /\ loaded.buf = dag_to_buf(dag)

EdgesOf(d) ==
    UNION {{<<d[i].parents[q], d[i].name>> : q \in 1..Len(d[i].parents)} :
              i \in 1..Len(d)}

LoadedKind(i) ==
    IF loaded.dag[i].cpd = 0 THEN "none" ELSE loaded.heap[loaded.dag[i].cpd].kind

\* C3: loading what was saved gives a DAG with the same node names, the
\* same edges, the same kind of variable per node, the same levels for each
\* discrete node and, per node, a parameter array equal to the original in
\* shape and values.
C3_RoundTripPreservesDag ==
    RoundTripped =>
        /\ loaded.err = ""
        /\ Len(loaded.dag) = Len(dag)
        /\ \A i \in 1..Len(dag) : loaded.dag[i].name = dag[i].name
        /\ EdgesOf(loaded.dag) = EdgesOf(dag)
        /\ \A i \in 1..Len(dag) :
              /\ LoadedKind(i) = dag[i].cpd.kind
              /\ dag[i].cpd.kind = "cpt" => loaded.dag[i].levels = dag[i].levels
              /\ dag[i].cpd.kind # "none" =>
                    loaded.heap[loaded.dag[i].cpd].array = dag[i].cpd.array

Inconsistent(array_buf) ==
    \/ array_buf.flat_array.rem # 0
    \/ Len(array_buf.flat_array.vals) # Prod(array_buf.shape)

\* C8: decoding a parameter array whose byte length does not fit its
\* declared shape (the count of 8-byte floats differs from the product of
\* the dimensions, zero bytes under a non-zero shape included) raises an
\* error and returns no array.
C8_InconsistentArrayRaises ==
    (loaded.op = "buf_to_array" /\ Inconsistent(loaded.arg)) => loaded.err # ""

\* the decoded model object of node k, where it has one
LoadedModel(k) == loaded.heap[loaded.dag[k].cpd]

HasUnspecified(msgs) == \E k \in 1..Len(msgs) : msgs[k].variable_type = "UNSPECIFIED"

\* C11: whatever node records the buffer holds, a record of kind UNSPECIFIED
\* decodes to a node with no parameter model and decoding completes without
\* error; no record's decoding alters another node's model, so that every
\* decoded node with a model holds a model object of its own, of the kind of
\* its record, whose parents are that record's parent names in order.
C11_UnspecifiedDecodesToNoModel ==
    loaded.op = "buf_to_dag" =>
        /\ HasUnspecified(loaded.buf) => loaded.err = ""
        /\ loaded.err = "" =>
              /\ \A k \in 1..Len(loaded.buf) :
                    IF loaded.buf[k].variable_type = "UNSPECIFIED"
                    THEN loaded.dag[k].cpd = 0
                    ELSE /\ loaded.dag[k].cpd # 0
                         /\ LoadedModel(k).parents = NameParents(loaded.buf[k].parents)
              /\ \A j, k \in 1..Len(loaded.buf) :
                    (j # k /\ loaded.dag[j].cpd # 0 /\ loaded.dag[k].cpd # 0)
                        => loaded.dag[j].cpd # loaded.dag[k].cpd

====
